---- MODULE Spec2Model ----
(***************************************************************************)
(* A model of the Go position engine of jsgf/rust-go: Location, Stone,     *)
(* Group, GroupIterator (flood fill) and Board (add / remove / play / get, *)
(* groups, liberties, locations, from_str and Display).                    *)
(*                                                                         *)
(* Spec drives a new board by add, remove, play and get; SpecSetup makes   *)
(* one play on a position set up by from_str; SpecGame is the game of      *)
(* tests::play; SpecRead makes the calls that take &self on a set-up       *)
(* position; SpecParse applies from_str to a text.                         *)
(*                                                                         *)
(* A Location is the pair <<col, row>> (Location::new(col, row)).  The     *)
(* occupancy map Board.points is a function whose domain is the set of     *)
(* occupied locations.  Option<Stone> is a Stone or None.                  *)
(***************************************************************************)
EXTENDS Integers, Sequences, FiniteSets, TLC

\* ------------------------------------------------------------------ bounds

\* Boards of size 1 .. MaxSize are constructed.
MaxSize == 3
\* A caller of locations() calls next() MoreCalls times more after the first
\* None.
MoreCalls == 3
\* A call that would put more than MaxStones stones on the board is not made,
\* and a set-up position holds at most MaxStones stones.
MaxStones == 5
\* A text handed to from_str has at most MaxText chars.
MaxText == 5

\* ------------------------------------------------------------------ Stone

Black == "Black"
White == "White"
Stone == {Black, White}
None == "None"

\* The two values of bool, as play returns them.
True == "true"
False == "false"

\* impl Not for Stone
Not(s) == IF s = Black THEN White ELSE Black

\* --------------------------------------------------------------- Location

Location(col, row) == <<col, row>>
col(l) == l[1]
row(l) == l[2]

\* Neighbours::next with the arms for the rows before those for the columns.
NeighboursRowsFirst(l) ==
    (IF row(l) > 0 THEN << Location(col(l), row(l) - 1) >> ELSE << >>)
    \o << Location(col(l), row(l) + 1) >>
    \o (IF col(l) > 0 THEN << Location(col(l) - 1, row(l)) >> ELSE << >>)
    \o << Location(col(l) + 1, row(l)) >>

\* Neighbours::next, collected in the order the iterator yields them.
Neighbours(l) ==
    (IF col(l) > 0 THEN << Location(col(l) - 1, row(l)) >> ELSE << >>)
    \o << Location(col(l) + 1, row(l)) >>
    \o (IF row(l) > 0 THEN << Location(col(l), row(l) - 1) >> ELSE << >>)
    \o << Location(col(l), row(l) + 1) >>

\* The same locations as a set, as every caller collects them (into a HashSet
\* or through any / filter).
NeighbourSet(l) ==
    (IF col(l) > 0 THEN { Location(col(l) - 1, row(l)) } ELSE {})
    \cup { Location(col(l) + 1, row(l)) }
    \cup (IF row(l) > 0 THEN { Location(col(l), row(l) - 1) } ELSE {})
    \cup { Location(col(l), row(l) + 1) }

\* AllLocations::new
AllLocationsNew(sz) == [size |-> sz, r |-> 0, c |-> 0]

\* AllLocations::next stepping along the rows first.
AllLocationsNextRowMajor(it) ==
    LET c1 == it.c + 1
    IN  [item |-> IF it.r >= it.size THEN << >> ELSE << Location(it.c, it.r) >>,
         it   |-> [size |-> it.size,
                   r    |-> IF c1 >= it.size THEN it.r + 1 ELSE it.r,
                   c    |-> IF c1 >= it.size THEN 0 ELSE c1]]

\* AllLocations::next: the Option it returns (<< l >> for Some(l), << >> for
\* None) and the iterator after the call.
AllLocationsNext(it) ==
    LET r1 == it.r + 1
    IN  [item |-> IF it.c >= it.size THEN << >> ELSE << Location(it.c, it.r) >>,
         it   |-> [size |-> it.size,
                   r    |-> IF r1 >= it.size THEN 0 ELSE r1,
                   c    |-> IF r1 >= it.size THEN it.c + 1 ELSE it.c]]

\* next() called until it returns None: the items and the iterator then.
RECURSIVE Collect(_)
Collect(it) ==
    LET n == AllLocationsNext(it)
    IN  IF n.item = << >> THEN [items |-> << >>, it |-> n.it]
        ELSE LET rest == Collect(n.it)
             IN  [items |-> n.item \o rest.items, it |-> rest.it]

\* next() called k times more: what the calls return.
RECURSIVE Again(_, _)
Again(it, k) ==
    IF k = 0 THEN << >>
    ELSE << AllLocationsNext(it).item >> \o Again(AllLocationsNext(it).it, k - 1)

\* ------------------------------------------------------------ HashMap glue

EmptyMap == [l \in {} |-> Black]

\* HashMap::get
MapGet(m, l) == IF l \in DOMAIN m THEN m[l] ELSE None

\* HashMap::insert (the new map; the old value is MapGet of the old map)
MapInsert(m, l, s) == [x \in DOMAIN m \cup {l} |-> IF x = l THEN s ELSE m[x]]

\* HashMap::remove of one key, and of a set of keys one after the other
MapRemove(m, l) == [x \in DOMAIN m \ {l} |-> m[x]]
MapRemoveAll(m, ls) == [x \in DOMAIN m \ ls |-> m[x]]

\* ------------------------------------------------------------------ Group

\* Group::neighbours without the difference: the members next to other
\* members stay in.
GroupNeighboursInternal(g) == UNION { NeighbourSet(l) : l \in g.group }

\* Group::neighbours
GroupNeighbours(g) == (UNION { NeighbourSet(l) : l \in g.group }) \ g.group

\* Group::contains
GroupContains(g, l) == l \in g.group

\* The expansion loop leaving after its first round: the seed and the
\* candidates next to it.
ExpandOnce(stones, colour, g) ==
    LET rest == MapRemoveAll(stones, g)
        n == { l \in UNION { NeighbourSet(x) : x \in g } : MapGet(rest, l) = colour }
    IN  [group |-> g \cup n, stones |-> MapRemoveAll(rest, n)]

\* GroupIterator::next, the expansion loop: g is the group so far, stones the
\* candidates left.  Each round removes g from the candidates, collects the
\* fringe n of candidates of the group's colour, and stops when it is empty.
RECURSIVE Expand(_, _, _)
Expand(stones, colour, g) ==
    LET rest == MapRemoveAll(stones, g)
        n == { l \in UNION { NeighbourSet(x) : x \in g } : MapGet(rest, l) = colour }
    IN  IF n = {} THEN [group |-> g, stones |-> rest]
        ELSE Expand(rest, colour, g \cup n)

\* One round of the expansion loop that leaves the group among the candidates.
ExpandRoundKeep(stones, colour, g) ==
    LET n == { l \in UNION { NeighbourSet(x) : x \in g } : MapGet(stones, l) = colour }
    IN  [stones |-> stones, n |-> n, g |-> g \cup n]

\* One round of the expansion loop: the candidates once g is removed, the
\* fringe n, and g with the fringe added.
ExpandRound(stones, colour, g) ==
    LET rest == MapRemoveAll(stones, g)
        n == { l \in UNION { NeighbourSet(x) : x \in g } : MapGet(rest, l) = colour }
    IN  [stones |-> rest, n |-> n, g |-> g \cup n]

\* GroupIterator::next on a non-empty candidate map, when the hash map's
\* iteration yields `seed` first.
GroupIteratorNext(stones, seed) ==
    LET e == Expand(stones, stones[seed], {seed})
    IN  [item |-> [colour |-> stones[seed], group |-> e.group], stones |-> e.stones]

\* Every sequence of groups the iterator can emit for an occupancy: the hash
\* map's iteration order is unspecified, so any candidate can be the seed.
RECURSIVE GroupSeqs(_)
GroupSeqs(stones) ==
    IF DOMAIN stones = {} THEN { << >> }
    ELSE UNION { { << nx.item >> \o rest : rest \in GroupSeqs(nx.stones) }
                 : nx \in { GroupIteratorNext(stones, seed) : seed \in DOMAIN stones } }

\* ------------------------------------------------------------------ Board

\* validloc with the column test left out.
validlocRowOnly(sz, l) == row(l) < sz

\* validloc with the far edge off by one.
validlocOffByOne(sz, l) == row(l) <= sz /\ col(l) <= sz

\* Board::validloc
validloc(sz, l) == row(l) < sz /\ col(l) < sz

\* Board::get
get(pts, l) == MapGet(pts, l)

\* groups without its colour filter: the groups of both colours.
groupsUnfiltered(pts, colour) == GroupSeqs(pts)

\* Board::groups, collected in the order the iterator emits: every Vec it can
\* return for the occupancy pts.
groups(pts, colour) ==
    GroupSeqs([l \in { x \in DOMAIN pts : pts[x] = colour } |-> pts[l]])

\* liberties without the bounds filter: points past the far edge count.
libertiesUnbounded(sz, pts, g) ==
    { l \in GroupNeighbours(g) : get(pts, l) = None }

\* liberties with the occupancy filter inverted: occupied neighbours count.
libertiesOccupied(sz, pts, g) ==
    { l \in GroupNeighbours(g) : validloc(sz, l) /\ get(pts, l) # None }

\* Board::liberties
liberties(sz, pts, g) ==
    { l \in GroupNeighbours(g) : validloc(sz, l) /\ get(pts, l) = None }

\* play without its second early return.
PlayRejectsBoundsOnly(sz, pts, l) == ~validloc(sz, l)

\* play without its first early return.
PlayRejectsOccupiedOnly(sz, pts, l) == get(pts, l) # None

\* The two early returns of play.
PlayRejects(sz, pts, l) == ~validloc(sz, l) \/ get(pts, l) # None

\* The inner loop of play stopping after the first stone of g.
RemoveGroupFirst(pts, g, expect) ==
    LET d == CHOOSE x \in g.group : TRUE
    IN  [points |-> MapRemove(pts, d), ok |-> get(pts, d) = expect]

\* The inner loop of play: remove every stone of g, asserting each removed
\* value is Some(expect).  ok is FALSE when an assert_eq! fails; the loops
\* stop there and play does not return (points is then the board with the
\* whole of g taken off, the furthest the loop could have got).
RemoveGroup(pts, g, expect) ==
    [points |-> MapRemoveAll(pts, g.group),
     ok     |-> \A d \in g.group : get(pts, d) = expect]

\* "Play the stone": add(loc, s) with its bounds assertion, then the assertion
\* that the point was empty.
PlaceStone(sz, pts, l, s) ==
    [points |-> MapInsert(pts, l, s),
     ok     |-> validloc(sz, l) /\ MapGet(pts, l) = None]

\* The first loop left out: nothing is captured.
CaptureLoopNone(sz, b, opposite, s) == b

\* First loop of play: over the opposite-coloured groups, in their order.
RECURSIVE CaptureLoop(_, _, _, _)
CaptureLoop(sz, b, opposite, s) ==
    IF opposite = << >> \/ ~b.ok THEN b
    ELSE LET g == Head(opposite)
         IN  IF liberties(sz, b.points, g) = {}
             THEN CaptureLoop(sz, RemoveGroup(b.points, g, Not(s)), Tail(opposite), s)
             ELSE CaptureLoop(sz, b, Tail(opposite), s)

\* The second loop left out: a stone without liberties stays.
SuicideLoopSkip(sz, b, same, l, s) == b

\* The second loop deciding from the liberties the group had before the
\* stone was placed (the played stone's own neighbours are not looked at).
RECURSIVE SuicideLoopPre(_, _, _, _, _)
SuicideLoopPre(sz, b, same, l, s) ==
    IF same = << >> \/ ~b.ok THEN b
    ELSE LET g   == Head(same)
             old == [colour |-> g.colour, group |-> g.group \ {l}]
             lib == IF old.group = {} THEN liberties(sz, b.points, g)
                    ELSE liberties(sz, b.points, old) \ {l}
         IN  IF GroupContains(g, l) /\ lib = {}
             THEN SuicideLoopPre(sz, RemoveGroup(b.points, g, s), Tail(same), l, s)
             ELSE SuicideLoopPre(sz, b, Tail(same), l, s)

\* Second loop of play: over the same-coloured groups, skipping those that do
\* not contain loc.
RECURSIVE SuicideLoop(_, _, _, _, _)
SuicideLoop(sz, b, same, l, s) ==
    IF same = << >> \/ ~b.ok THEN b
    ELSE LET g == Head(same)
         IN  IF GroupContains(g, l) /\ liberties(sz, b.points, g) = {}
             THEN SuicideLoop(sz, RemoveGroup(b.points, g, s), Tail(same), l, s)
             ELSE SuicideLoop(sz, b, Tail(same), l, s)

\* The partition with a predicate that sends every group to `opposite`.
PartitionsUnsplit(placed, s) ==
    { [same |-> << >>, opposite |-> gs] : gs \in GroupSeqs(placed) }

\* The (same, opposite) pairs play can obtain for the occupancy `placed`:
\* the groups in any order the iterator can emit them, partitioned by colour
\* with the order kept.
Partitions(placed, s) ==
    { [same     |-> SelectSeq(gs, LAMBDA g : g.colour = s),
       opposite |-> SelectSeq(gs, LAMBDA g : g.colour # s)] : gs \in GroupSeqs(placed) }

\* play with the two loops in the other order: self-capture first.
PlayBodySuicideFirst(sz, pts, l, s, so) ==
    LET b0 == PlaceStone(sz, pts, l, s)
        b1 == SuicideLoop(sz, b0, so.same, l, s)
    IN  CaptureLoop(sz, b1, so.opposite, s)

\* play deciding the self-capture on the occupancy as it was before the
\* opposing groups were removed.
PlayBodyStale(sz, pts, l, s, so) ==
    LET b0 == PlaceStone(sz, pts, l, s)
        b1 == CaptureLoop(sz, b0, so.opposite, s)
        b2 == SuicideLoop(sz, b0, so.same, l, s)
    IN  [points |-> MapRemoveAll(b1.points, DOMAIN b0.points \ DOMAIN b2.points),
         ok     |-> b1.ok /\ b2.ok]

\* Board::play once both early returns are passed, for one such pair.
PlayBody(sz, pts, l, s, so) ==
    LET b0 == PlaceStone(sz, pts, l, s)
        b1 == CaptureLoop(sz, b0, so.opposite, s)
    IN  SuicideLoop(sz, b1, so.same, l, s)

\* from_str anchoring the rows at the lower-left: the last line is row 0.
from_strLowerLeft(layout) ==
    LET h  == Len(layout)
        w  == IF h = 0 THEN 0
              ELSE CHOOSE n \in { Len(layout[r]) : r \in 1..h } :
                       \A r \in 1..h : Len(layout[r]) <= n
        sz == IF w > h THEN w ELSE h
        stones == { rc \in (1..h) \X (1..w) :
                       rc[2] <= Len(layout[rc[1]]) /\ layout[rc[1]][rc[2]] # None }
    IN  [size   |-> sz,
         points |-> [l \in { Location(rc[2] - 1, h - 1 - (rc[1] - 1)) : rc \in stones }
                        |-> layout[h - row(l)][col(l) + 1]]]

\* impl FromStr for Board, from `layout` on: the rows of symbols left once the
\* other characters are filtered out, each symbol a Stone or None.
from_str(layout) ==
    LET h  == Len(layout)
        w  == IF h = 0 THEN 0
              ELSE CHOOSE n \in { Len(layout[r]) : r \in 1..h } :
                       \A r \in 1..h : Len(layout[r]) <= n
        sz == IF w > h THEN w ELSE h
        stones == { rc \in (1..h) \X (1..w) :
                       rc[2] <= Len(layout[rc[1]]) /\ layout[rc[1]][rc[2]] # None }
    IN  [size   |-> sz,
         points |-> [l \in { Location(rc[2] - 1, sz - 1 - (rc[1] - 1)) : rc \in stones }
                        |-> layout[sz - row(l)][col(l) + 1]]]

\* A String is the sequence of its chars; Some(x) is << x >> and the None of
\* an Option that is not an Option<Stone> is << >>.
RECURSIVE Flatten(_)
Flatten(ss) == IF ss = << >> THEN << >> ELSE Head(ss) \o Flatten(Tail(ss))

\* str::lines: the pieces between line feeds; a final line feed ends the
\* last line and starts no new one.
RECURSIVE Lines(_)
Lines(s) ==
    IF s = << >> THEN << >>
    ELSE LET nl == { i \in 1..Len(s) : s[i] = "\n" }
         IN  IF nl = {} THEN << s >>
             ELSE LET i == CHOOSE n \in nl : \A m \in nl : n <= m
                  IN  << SubSeq(s, 1, i - 1) >> \o Lines(SubSeq(s, i + 1, Len(s)))

\* The match without its arms for the stone glyphs: they are no symbols.
SymbolAscii(c) ==
    IF c \in { "#", "X" } THEN << Black >>
    ELSE IF c \in { "O", "o" } THEN << White >>
    ELSE IF c = "." THEN << None >>
    ELSE << >>

\* The match of from_str on one char.
Symbol(c) ==
    IF c \in { "#", "X", "⚈", "⚉" } THEN << Black >>
    ELSE IF c \in { "O", "o", "⚆", "⚇" } THEN << White >>
    ELSE IF c = "." THEN << None >>
    ELSE << >>

\* impl FromStr for Board, up to `layout`: the symbols of each line.
layoutOf(s) ==
    [r \in 1..Len(Lines(s)) |->
        Flatten([i \in 1..Len(Lines(s)[r]) |-> Symbol(Lines(s)[r][i])])]

\* impl FromStr for Board
FromStr(s) == from_str(layoutOf(s))

\* The match of Display for Board on one point.
DisplayChar(c) == IF c = None THEN "." ELSE IF c = Black THEN "#" ELSE "O"

\* Display printing the rows from row 0 up.
DisplayBottomUp(sz, pts) ==
    Flatten([r \in 1..sz |->
        Flatten([c \in 1..sz |->
            << DisplayChar(get(pts, Location(c - 1, r - 1))), " " >>])
        \o << "\n" >>])

\* impl Display for Board: the loop variables row and col are r - 1 and c - 1.
Display(sz, pts) ==
    Flatten([r \in 1..sz |->
        Flatten([c \in 1..sz |->
            << DisplayChar(get(pts, Location(c - 1, sz - (r - 1) - 1))), " " >>])
        \o << "\n" >>])

\* What play can leave behind: one outcome for each pair it can obtain.
PlayOutcomes(sz, pts, l, s) ==
    { PlayBody(sz, pts, l, s, so) : so \in Partitions(MapInsert(pts, l, s), s) }

\* ------------------------------------------------------------------ state

VARIABLES
    size,    \* Board.size
    points,  \* Board.points
    op,      \* the call that has just returned: "add", "remove" or "play";
             \* "none" when the caller is about to make its next call
    loc,     \* its location argument
    stone,   \* its colour argument
    ret,     \* its return value (None when an assertion stopped it)
    pre,     \* Board.points when it was called
    panic,   \* TRUE once an assertion has failed
    text,    \* the String the caller holds: what it parses, or what was printed
    played,  \* the moves of the scripted game made so far (their numbers)
    iter     \* the GroupIterator the caller drives: its candidates `stones`,
             \* and inside next() (pc = "loop") the locals g and colour;
             \* emitted counts the groups it has returned and out is what
             \* the call of next() just made returned

vars == << size, points, op, loc, stone, ret, pre, panic, text, played, iter >>

\* GroupIterator::new over the occupancy m
IterNew(m) ==
    [stones |-> m, g |-> {}, colour |-> Black, pc |-> "idle", emitted |-> 0,
     out |-> << >>]

\* A caller that holds no text, follows no script and drives no iterator.
NoScript == text = << >> /\ played = << >> /\ iter = IterNew(EmptyMap)

\* The locations offered to the operations of a board of size sz: every
\* location of the board and those one step past its far edges.
Inputs(sz) == (0..sz) \X (0..sz)

\* Whether a call at l keeps the board within MaxStones stones.
StoneCap(l) ==
    \/ l \in DOMAIN points
    \/ ~validloc(size, l)
    \/ Cardinality(DOMAIN points) < MaxStones

NoCall ==
    /\ op = "none"
    /\ loc = Location(0, 0)
    /\ stone = Black
    /\ ret = None
    /\ pre = EmptyMap
    /\ panic = FALSE

\* Board::new_with_size
Init ==
    /\ size \in 1..MaxSize
    /\ points = EmptyMap
    /\ NoCall
    /\ NoScript

\* add without its assertion: the stone is inserted wherever l is.
AddUnchecked(l, s) ==
    /\ op = "none"
    /\ op' = "add" /\ loc' = l /\ stone' = s /\ pre' = points
    /\ points' = MapInsert(points, l, s)
    /\ ret' = MapGet(points, l)
    /\ UNCHANGED << size, panic >>

\* add leaving an occupied point as it is (the occupant is still returned).
AddKeepOccupant(l, s) ==
    /\ op = "none"
    /\ op' = "add" /\ loc' = l /\ stone' = s /\ pre' = points
    /\ IF ~validloc(size, l)
       THEN /\ panic' = TRUE
            /\ ret' = None
            /\ UNCHANGED << size, points >>
       ELSE /\ points' = IF l \in DOMAIN points THEN points ELSE MapInsert(points, l, s)
            /\ ret' = MapGet(points, l)
            /\ UNCHANGED << size, panic >>

\* Board::add
Add(l, s) ==
    /\ op = "none"
    /\ op' = "add" /\ loc' = l /\ stone' = s /\ pre' = points
    /\ IF ~validloc(size, l)
       THEN /\ panic' = TRUE
            /\ ret' = None
            /\ UNCHANGED << size, points >>
       ELSE /\ points' = MapInsert(points, l, s)
            /\ ret' = MapGet(points, l)
            /\ UNCHANGED << size, panic >>

\* Board::remove
Remove(l) ==
    /\ op = "none"
    /\ op' = "remove" /\ loc' = l /\ stone' = stone /\ pre' = points
    /\ points' = MapRemove(points, l)
    /\ ret' = MapGet(points, l)
    /\ UNCHANGED << size, panic >>

\* Board::get
Get(l) ==
    /\ op = "none"
    /\ op' = "get" /\ loc' = l /\ stone' = stone /\ pre' = points
    /\ ret' = get(points, l)
    /\ UNCHANGED << size, points, panic >>

\* Board::play
Play(l, s) ==
    /\ op = "none"
    /\ op' = "play" /\ loc' = l /\ stone' = s /\ pre' = points
    /\ IF PlayRejects(size, points, l)
       THEN /\ ret' = False
            /\ UNCHANGED << size, points, panic >>
       ELSE /\ \E b \in PlayOutcomes(size, points, l, s) :
                 /\ points' = b.points
                 /\ panic' = ~b.ok
                 /\ ret' = IF b.ok THEN True ELSE None
            /\ UNCHANGED size

\* The caller takes the result of the call and goes on to its next call; a
\* failed assertion ends the run instead.
Continue ==
    /\ op # "none"
    /\ ~panic
    /\ op' = "none" /\ loc' = Location(0, 0) /\ stone' = Black
    /\ ret' = None /\ pre' = EmptyMap
    /\ UNCHANGED << size, points, panic >>

Next ==
    \/ \E l \in Inputs(size), s \in Stone :
          StoneCap(l) /\ Add(l, s) /\ UNCHANGED << text, played, iter >>
    \/ \E l \in Inputs(size) : Remove(l) /\ UNCHANGED << text, played, iter >>
    \/ \E l \in Inputs(size), s \in Stone :
          StoneCap(l) /\ Play(l, s) /\ UNCHANGED << text, played, iter >>
    \/ \E l \in Inputs(size) : Get(l) /\ UNCHANGED << text, played, iter >>
    \/ Continue /\ UNCHANGED << text, played, iter >>

\* A board driven by add, remove, play and get from its construction.
Spec == Init /\ [][Next]_vars

\* A game: play is the only call made on a board that starts empty.
NextPlay ==
    \/ \E l \in Inputs(size), s \in Stone :
          StoneCap(l) /\ Play(l, s) /\ UNCHANGED << text, played, iter >>
    \/ Continue /\ UNCHANGED << text, played, iter >>

SpecPlay == Init /\ [][NextPlay]_vars

\* The square layouts of n rows whose symbols are all kept.
Layouts(n) == [1..n -> [1..n -> Stone \cup {None}]]

StonesOf(layout) ==
    Cardinality({ rc \in (DOMAIN layout) \X (DOMAIN layout) : layout[rc[1]][rc[2]] # None })

\* Board::from_str of a set-up position
InitSetup ==
    /\ \E n \in 1..MaxSize : \E layout \in Layouts(n) :
          /\ StonesOf(layout) <= MaxStones
          /\ size = from_str(layout).size
          /\ points = from_str(layout).points
    /\ NoCall
    /\ NoScript

NextSetup ==
    \E l \in Inputs(size), s \in Stone : Play(l, s) /\ UNCHANGED << text, played, iter >>

\* One play on a set-up position.
SpecSetup == InitSetup /\ [][NextSetup]_vars

\* ------------------------------------------------------ the reading calls

\* Board::from_str of a set-up position of any size from 0 on.
InitRead ==
    /\ \E n \in 0..MaxSize : \E layout \in Layouts(n) :
          /\ StonesOf(layout) <= MaxStones
          /\ size = from_str(layout).size
          /\ points = from_str(layout).points
    /\ NoCall
    /\ NoScript

\* Board::groups(colour), collected into a Vec
Groups(c) ==
    /\ op = "none"
    /\ op' = "groups" /\ loc' = loc /\ stone' = c /\ pre' = points
    /\ ret' \in groups(points, c)
    /\ UNCHANGED << size, points, panic, text, played, iter >>

\* Board::liberties(group), collected into a set, for the group of the stone
\* at l as groups returns it.
Liberties(l) ==
    /\ op = "none"
    /\ l \in DOMAIN points
    /\ op' = "liberties" /\ loc' = l /\ stone' = stone /\ pre' = points
    /\ \E gs \in groups(points, points[l]) : \E i \in DOMAIN gs :
          /\ GroupContains(gs[i], l)
          /\ ret' = liberties(size, points, gs[i])
    /\ UNCHANGED << size, points, panic, text, played, iter >>

\* format!("{}", board)
Fmt ==
    /\ op = "none"
    /\ op' = "fmt" /\ loc' = loc /\ stone' = stone /\ pre' = points
    /\ text' = Display(size, points)
    /\ ret' = None
    /\ UNCHANGED << size, points, panic, played, iter >>

\* The caller drops the printed text when it goes on.
\* loc.neighbours(), collected into a Vec
NeighboursOf(l) ==
    /\ op = "none"
    /\ op' = "neighbours" /\ loc' = l /\ stone' = stone /\ pre' = points
    /\ ret' = Neighbours(l)
    /\ UNCHANGED << size, points, panic, text, played, iter >>

\* Board::locations, iterated to its end and past it
Locations ==
    /\ op = "none"
    /\ op' = "locations" /\ loc' = loc /\ stone' = stone /\ pre' = points
    /\ ret' = LET all == Collect(AllLocationsNew(size))
              IN  [items |-> all.items, after |-> Again(all.it, MoreCalls)]
    /\ UNCHANGED << size, points, panic, text, played, iter >>

\* Group::new
GroupNew(s, l) == [colour |-> s, group |-> {l}]

\* group.neighbours(), for the group of the stone at l as groups returns it
\* and for the group Group::new makes of that stone alone.
NeighboursOfGroup(l) ==
    /\ op = "none"
    /\ l \in DOMAIN points
    /\ op' = "group_neighbours" /\ loc' = l /\ stone' = stone /\ pre' = points
    /\ \E g \in { GroupNew(points[l], l) }
                 \cup UNION { { gs[i] : i \in DOMAIN gs } :
                                 gs \in groups(points, points[l]) } :
          /\ GroupContains(g, l)
          /\ ret' = [group |-> g.group, neighbours |-> GroupNeighbours(g)]
    /\ UNCHANGED << size, points, panic, text, played, iter >>

\* The calls of a reader; it drops the printed text when it goes on.
NextRead ==
    \/ \E c \in Stone : Groups(c)
    \/ \E l \in Inputs(size) : Liberties(l)
    \/ Fmt
    \/ \E l \in Inputs(size) : NeighboursOf(l)
    \/ Locations
    \/ \E l \in Inputs(size) : NeighboursOfGroup(l)
    \/ Continue /\ text' = << >> /\ UNCHANGED << played, iter >>

\* The calls that take &self, made on a set-up position.
SpecRead == InitRead /\ [][NextRead]_vars

\* ---------------------------------------------------------- the flood fill

\* GroupIterator::new over the stones of a set-up position, as play makes it.
InitFill ==
    /\ \E n \in 0..MaxSize : \E layout \in Layouts(n) :
          /\ StonesOf(layout) <= MaxStones
          /\ size = from_str(layout).size
          /\ points = from_str(layout).points
    /\ NoCall
    /\ text = << >> /\ played = << >>
    /\ iter = IterNew(points)

\* next() on an iterator with no candidate left: None.
IterNone ==
    /\ op = "none" /\ iter.pc = "idle"
    /\ DOMAIN iter.stones = {}
    /\ op' = "next" /\ pre' = iter.stones
    /\ iter' = [iter EXCEPT !.out = << >>]
    /\ UNCHANGED << size, points, loc, stone, ret, panic, text, played >>

\* next() up to its loop: the group starts as the candidate the map yields
\* first.
IterBegin(seed) ==
    /\ op = "none" /\ iter.pc = "idle"
    /\ seed \in DOMAIN iter.stones
    /\ iter' = [iter EXCEPT !.pc = "loop", !.g = {seed}, !.colour = iter.stones[seed]]
    /\ pre' = iter.stones
    /\ UNCHANGED << size, points, op, loc, stone, ret, panic, text, played >>

\* One round of the loop of next(); with an empty fringe it leaves the loop
\* and next() returns the group.
IterRound ==
    /\ iter.pc = "loop"
    /\ LET e == ExpandRound(iter.stones, iter.colour, iter.g)
       IN  IF e.n = {}
           THEN /\ iter' = [iter EXCEPT
                              !.stones = e.stones, !.pc = "idle",
                              !.emitted = iter.emitted + 1,
                              !.out = << [colour |-> iter.colour, group |-> iter.g] >>]
                /\ op' = "next"
           ELSE /\ iter' = [iter EXCEPT !.stones = e.stones, !.g = e.g]
                /\ op' = op
    /\ UNCHANGED << size, points, loc, stone, ret, pre, panic, text, played >>

NextFill ==
    \/ IterNone
    \/ \E seed \in Inputs(size) : IterBegin(seed)
    \/ IterRound
    \/ Continue /\ iter' = [iter EXCEPT !.out = << >>] /\ UNCHANGED << text, played >>

\* The iterator driven by a caller; a call of next() that is in its loop goes
\* on running (every round changes iter).
SpecFill == InitFill /\ [][NextFill]_vars /\ WF_iter(IterRound)

\* ------------------------------------------------------------- parsing

\* The chars the texts are made of: the stone and empty symbols, two chars
\* that are no symbol, and the line feed.
TextChars == { "#", "X", "⚈", "⚉", "O", "o", "⚆", "⚇", ".", " ", "-", "\n" }

\* The texts of n chars.
Texts(n) == [1..n -> TextChars]

\* A caller that holds a text and has no board yet (size and points stand
\* for the board from_str is about to return).
InitParse ==
    /\ \E n \in 0..MaxText : text \in Texts(n)
    /\ size = 0
    /\ points = EmptyMap
    /\ NoCall
    /\ played = << >>
    /\ iter = IterNew(EmptyMap)

\* Board::from_str(text), which returns Ok(board)
FromStrCall ==
    /\ op = "none"
    /\ op' = "from_str" /\ loc' = loc /\ stone' = stone /\ pre' = points
    /\ size' = FromStr(text).size
    /\ points' = FromStr(text).points
    /\ ret' = "Ok"
    /\ UNCHANGED << panic, text, played, iter >>

NextParse == FromStrCall

\* from_str applied to a text.
SpecParse == InitParse /\ [][NextParse]_vars

\* ------------------------------------------------------- the scripted game

\* tests::play: the size of its board and its moves, in order.
GameSize == 5

Script ==
    << [loc |-> Location(0, 0), stone |-> Black],
       [loc |-> Location(0, 0), stone |-> Black],
       [loc |-> Location(0, 0), stone |-> White],
       [loc |-> Location(1, 0), stone |-> White],
       [loc |-> Location(1, 2), stone |-> Black],
       [loc |-> Location(0, 1), stone |-> White],
       [loc |-> Location(0, 2), stone |-> Black],
       [loc |-> Location(1, 1), stone |-> White],
       [loc |-> Location(2, 0), stone |-> Black],
       [loc |-> Location(3, 3), stone |-> White],
       [loc |-> Location(2, 1), stone |-> Black],
       [loc |-> Location(3, 2), stone |-> White],
       [loc |-> Location(0, 0), stone |-> Black] >>

\* Board::new_with_size(5)
InitGame ==
    /\ size = GameSize
    /\ points = EmptyMap
    /\ NoCall
    /\ NoScript

\* The caller makes move i of the script, a later one than its last: it goes
\* through the moves in order and may leave any of them out.
ScriptPlay(i) ==
    /\ IF played = << >> THEN TRUE ELSE played[Len(played)] < i
    /\ Play(Script[i].loc, Script[i].stone)
    /\ played' = Append(played, i)
    /\ UNCHANGED << text, iter >>

NextGame ==
    \/ \E i \in 1..Len(Script) : ScriptPlay(i)
    \/ Continue /\ UNCHANGED << text, played, iter >>

\* The game of tests::play, and every game made of some of its moves.
SpecGame == InitGame /\ [][NextGame]_vars

\* ------------------------------------------------------ coordinate labels

\* Board::new: the size of the board the labels are for.
BoardSize == 19

Upper == << "A", "B", "C", "D", "E", "F", "G", "H", "I", "J", "K", "L", "M",
            "N", "O", "P", "Q", "R", "S", "T", "U", "V", "W", "X", "Y", "Z" >>
Lower == << "a", "b", "c", "d", "e", "f", "g", "h", "i", "j", "k", "l", "m",
            "n", "o", "p", "q", "r", "s", "t", "u", "v", "w", "x", "y", "z" >>
Digits == << "0", "1", "2", "3", "4", "5", "6", "7", "8", "9" >>

\* The place of ch in seq, 0 when it is not there.
IndexIn(seq, ch) ==
    IF \E i \in DOMAIN seq : seq[i] = ch
    THEN CHOOSE i \in DOMAIN seq : seq[i] = ch
    ELSE 0

\* char::to_lowercase on one character
ToLowercase(ch) ==
    IF IndexIn(Upper, ch) # 0 THEN Lower[IndexIn(Upper, ch)] ELSE ch

\* "{}" of a usize: its decimal digits.
RECURSIVE Decimal(_)
Decimal(n) ==
    IF n < 10 THEN << Digits[n + 1] >>
    ELSE Decimal(n \div 10) \o << Digits[(n % 10) + 1] >>

\* Result<Location, &'static str>
Ok(l) == [err |-> "", loc |-> << l >>]
Err(e) == [err |-> e, loc |-> << >>]

\* impl Display for Location: 'A' + col for columns 0..7, 'J' + col - 8 for
\* columns 8..24, '#' beyond, then row + 1.
LocationDisplay(l) ==
    LET c == IF col(l) <= 7 THEN Upper[col(l) + 1]
             ELSE IF col(l) <= 24 THEN Upper[col(l) - 8 + 10]
             ELSE "#"
    IN  << c >> \o Decimal(row(l) + 1)

\* impl FromStr for Location: two or three characters; a column letter A-H or
\* J-T in either case; a row digit '1'..'9'; then nothing or a second digit
\* '1'..'9'.
LocationFromStr(s) ==
    IF Len(s) # 2 /\ Len(s) # 3 THEN Err("bad len")
    ELSE LET a  == IndexIn(Lower, ToLowercase(s[1]))
             d1 == IndexIn(Digits, s[2]) - 1
             d2 == IF Len(s) = 3 THEN IndexIn(Digits, s[3]) - 1 ELSE 0
         IN  IF ~(a \in 1..8 \/ a \in 10..20) THEN Err("bad col")
             ELSE IF d1 \notin 1..9 THEN Err("bad row 1")
             ELSE IF Len(s) = 3 /\ d2 \notin 1..9 THEN Err("bad row 2")
             ELSE LET c == IF a <= 8 THEN a - 1 ELSE a - 10 + 8
                      r == IF Len(s) = 3 THEN d1 * 10 + d2 ELSE d1
                  IN  Ok(Location(c, r - 1))

\* Board::new(): the 19x19 board, empty.
InitLabel ==
    /\ size = BoardSize
    /\ points = EmptyMap
    /\ NoCall
    /\ NoScript

\* The label of a location of the board is printed; the caller keeps it as
\* printed or with its column letter in lower case.
LabelFmt(l, lower) ==
    /\ op = "none"
    /\ validloc(size, l)
    /\ op' = "label" /\ loc' = l
    /\ text' = IF lower
               THEN << ToLowercase(Head(LocationDisplay(l))) >> \o Tail(LocationDisplay(l))
               ELSE LocationDisplay(l)
    /\ UNCHANGED << size, points, stone, ret, pre, panic, played, iter >>

\* The label is parsed back.
LabelParse ==
    /\ op = "label"
    /\ op' = "parse"
    /\ ret' = LocationFromStr(text)
    /\ UNCHANGED << size, points, loc, stone, pre, panic, text, played, iter >>

NextLabel ==
    \/ \E l \in Inputs(size), lower \in BOOLEAN : LabelFmt(l, lower)
    \/ LabelParse
    \/ op = "parse" /\ Continue /\ text' = << >> /\ UNCHANGED << played, iter >>

SpecLabel == InitLabel /\ [][NextLabel]_vars

\* ---------------------------------------------------------------- claims

\* The rules of the game stated on their own, without the flood fill: the
\* points of a board, adjacency, the chain of a stone (its maximal connected
\* same-coloured set) and the liberties of a set of stones.
OnBoard(sz) == (0..(sz - 1)) \X (0..(sz - 1))

Adjacent(a, b) ==
    \/ a[1] = b[1] /\ (a[2] = b[2] + 1 \/ b[2] = a[2] + 1)
    \/ a[2] = b[2] /\ (a[1] = b[1] + 1 \/ b[1] = a[1] + 1)

RECURSIVE Grow(_, _, _)
Grow(occ, c, S) ==
    LET T == S \cup { x \in DOMAIN occ : occ[x] = c /\ \E y \in S : Adjacent(x, y) }
    IN  IF T = S THEN S ELSE Grow(occ, c, T)

Chain(occ, l) == Grow(occ, occ[l], {l})

Chains(occ, c) == { Chain(occ, l) : l \in { x \in DOMAIN occ : occ[x] = c } }

Libs(sz, occ, G) ==
    { x \in OnBoard(sz) : x \notin DOMAIN occ /\ \E y \in G : Adjacent(x, y) }

Without(occ, S) == [x \in DOMAIN occ \ S |-> occ[x]]

\* The last call was a play on an in-bounds, empty point.
Proceeds == op = "play" /\ loc \in OnBoard(size) /\ loc \notin DOMAIN pre

\* The last call was a play that returned true.
Accepted == op = "play" /\ ret = True

\* The post-placement occupancy of the last play.
Placed == [x \in DOMAIN pre \cup {loc} |-> IF x = loc THEN stone ELSE pre[x]]

\* The opposing stones without liberties, after and before the placement.
DeadPlaced ==
    UNION { G \in Chains(Placed, Not(stone)) : Libs(size, Placed, G) = {} }
DeadBefore ==
    UNION { G \in Chains(pre, Not(stone)) : Libs(size, pre, G) = {} }

\* Some opposing stone was on the board before the play and is gone after.
OppRemoved == \E x \in DOMAIN pre : pre[x] = Not(stone) /\ x \notin DOMAIN points

\* C1: after a successful play every opposing group without liberties in the
\* post-placement occupancy is absent, and every opposing group with a
\* liberty there still has all its stones.
C1_CapturesExactlyTheDead ==
    Accepted =>
        \A G \in Chains(Placed, Not(stone)) :
            IF Libs(size, Placed, G) = {}
            THEN G \cap DOMAIN points = {}
            ELSE \A x \in G : MapGet(points, x) = Not(stone)

C1_Witness ==
    /\ Accepted
    /\ \E G \in Chains(Placed, Not(stone)) : Libs(size, Placed, G) = {}
    /\ \E G \in Chains(Placed, Not(stone)) : Libs(size, Placed, G) # {}

\* C2: a lone white stone whose only liberty is loc: Black played on loc is
\* accepted, removes the white stone and stays on the board.
C2_CapturePrecedence ==
    \A w \in DOMAIN pre :
        ( /\ op = "play" /\ stone = Black
          /\ pre[w] = White
          /\ Chain(pre, w) = {w}
          /\ Libs(size, pre, {w}) = {loc}
          /\ \A n \in OnBoard(size) : Adjacent(n, w) /\ n # loc => MapGet(pre, n) = Black )
        => ( ret = True /\ w \notin DOMAIN points /\ MapGet(points, loc) = Black )

\* ... reached with a played stone that had no empty neighbour when placed.
C2_Witness ==
    /\ op = "play" /\ stone = Black /\ ret = True
    /\ \E w \in DOMAIN pre :
          /\ pre[w] = White /\ Chain(pre, w) = {w} /\ Libs(size, pre, {w}) = {loc}
          /\ w \notin DOMAIN points
    /\ \A n \in OnBoard(size) : Adjacent(n, loc) => n \in DOMAIN pre
    /\ MapGet(points, loc) = Black

\* The played stone's group has no liberty once the opposing groups without
\* liberties are taken off the post-placement occupancy.
OwnDead ==
    /\ Proceeds
    /\ Libs(size, Without(Placed, DeadPlaced), Chain(Placed, loc)) = {}

\* C3 as claimed: a suicide removes the played group, returns true and leaves
\* every other stone as it was.
C3_SuicideLeavesOthers ==
    OwnDead => ( ret = True /\ points = Without(pre, Chain(Placed, loc)) )

\* C3 as amended: ... every other stone except the opposing groups that had
\* no liberty before the call, which are removed as well.
C3_SuicideAmended ==
    OwnDead => ( ret = True /\ points = Without(pre, Chain(Placed, loc) \cup DeadBefore) )

C3_Witness ==
    /\ OwnDead
    /\ Cardinality(Chain(Placed, loc)) >= 2
    /\ ret = True
    /\ Chain(Placed, loc) \cap DOMAIN points = {}

\* C4: play on a location with col >= size or row >= size returns false and
\* changes nothing; add on one stops on its assertion and inserts nothing.
C4_Bounds ==
    ( op \in {"play", "add"} /\ loc \notin OnBoard(size) )
    => /\ points = pre
       /\ op = "play" => ( ret = False /\ ~panic )
       /\ op = "add" => ( panic /\ ret = None )

C4_Witness ==
    /\ op = "add" /\ loc \notin OnBoard(size)
    /\ DOMAIN pre # {}
    /\ panic

\* C5: play on an occupied location returns false and changes nothing.
C5_NoOverwrite ==
    ( op = "play" /\ loc \in DOMAIN pre )
    => ( ret = False /\ points = pre /\ ~panic )

C5_Witness ==
    /\ op = "play" /\ loc \in DOMAIN pre /\ pre[loc] = Not(stone)
    /\ ret = False

\* C6: play returns true exactly when loc is in bounds and empty, and false
\* otherwise.
C6_AcceptedIffEmptyInBounds ==
    op = "play" =>
        ret = IF loc \in OnBoard(size) /\ loc \notin DOMAIN pre THEN True ELSE False

\* ... a play that returned true although the played stone is gone.
C6_Witness ==
    /\ Proceeds
    /\ ret = True
    /\ loc \notin DOMAIN points

\* A play on the only liberty of a friendly group, by a stone with an empty
\* in-bounds neighbour.
FreshLiberty ==
    /\ Proceeds
    /\ \E f \in DOMAIN pre : pre[f] = stone /\ Libs(size, pre, Chain(pre, f)) = {loc}
    /\ \E e \in OnBoard(size) : Adjacent(e, loc) /\ e \notin DOMAIN pre

\* C7 as claimed: such a play returns true and removes no stone.
C7_RemovesNothing ==
    FreshLiberty => ( ret = True /\ points = Placed )

\* C7 as amended: such a play returns true and removes no stone of the played
\* colour; it removes no stone at all unless it leaves an opposing group
\* without liberties.
C7_KeepsOwnStones ==
    FreshLiberty =>
        /\ ret = True
        /\ \A x \in DOMAIN Placed : Placed[x] = stone => MapGet(points, x) = stone
        /\ DeadPlaced = {} => points = Placed

C7_Witness ==
    /\ FreshLiberty
    /\ ret = True
    /\ points = Placed

\* C8: after a successful play the occupancy is the post-placement occupancy
\* less whole groups of it: nothing new, no colour changed, no group cut.
C8_WholeGroupsOnly ==
    Accepted =>
        /\ \A x \in DOMAIN points : x \in DOMAIN Placed /\ points[x] = Placed[x]
        /\ \A c \in Stone : \A G \in Chains(Placed, c) :
              G \subseteq DOMAIN points \/ G \cap DOMAIN points = {}

\* ... reached by the capture of a group of two or more stones.
C8_Witness ==
    /\ Accepted
    /\ \E G \in Chains(Placed, Not(stone)) :
          Cardinality(G) >= 2 /\ G \cap DOMAIN points = {}
    /\ Chain(Placed, loc) \subseteq DOMAIN points

\* C9 as claimed: a play that removes an opposing stone does not remove the
\* played stone's group.
C9_NeverBoth ==
    ( Accepted /\ OppRemoved ) => Chain(Placed, loc) \subseteq DOMAIN points

\* C9 as amended: ... when every opposing group had a liberty before the call.
C9_NeverBothUnlessDeadBefore ==
    ( Accepted /\ OppRemoved /\ DeadBefore = {} )
    => Chain(Placed, loc) \subseteq DOMAIN points

\* ... reached by a stone whose group had no liberty until the capture.
C9_Witness ==
    /\ Accepted /\ OppRemoved /\ DeadBefore = {}
    /\ Libs(size, Placed, Chain(Placed, loc)) = {}
    /\ Chain(Placed, loc) \subseteq DOMAIN points

\* C10 as claimed: every opposing group removed by a play had loc as its only
\* liberty before the placement.
C10_LastLibertyFilled ==
    Accepted =>
        \A x \in DOMAIN pre :
            ( pre[x] = Not(stone) /\ x \notin DOMAIN points )
            => Libs(size, pre, Chain(pre, x)) = {loc}

\* C10 as amended: every opposing group removed by a play had no liberty other
\* than loc before the placement (loc alone, or none at all).
C10_NoOtherLiberty ==
    Accepted =>
        \A x \in DOMAIN pre :
            ( pre[x] = Not(stone) /\ x \notin DOMAIN points )
            => Libs(size, pre, Chain(pre, x)) \subseteq {loc}

C10_Witness ==
    /\ Accepted
    /\ \E x \in DOMAIN pre :
          /\ pre[x] = Not(stone) /\ x \notin DOMAIN points
          /\ Libs(size, pre, Chain(pre, x)) = {loc}
    /\ \E x \in DOMAIN pre :
          /\ pre[x] = Not(stone) /\ x \notin DOMAIN points
          /\ Libs(size, pre, Chain(pre, x)) = {}

\* The play of White at (0,1) after Black (0,0), White (1,0), Black (1,2),
\* with or without the two rejected plays at (0,0) in between.
C11_Case ==
    /\ op = "play"
    /\ played \in { << 1, 4, 5, 6 >>, << 1, 2, 3, 4, 5, 6 >> }

\* C11 as claimed: that play of White at (0,1) removes no stone, and the black
\* stone at (0,0) is still on the board after it.
C11_CapturesNothing ==
    C11_Case => ( points = Placed /\ MapGet(points, Location(0, 0)) = Black )

\* C11 as amended: that play of White at (0,1) returns true and removes
\* exactly the black stone at (0,0), whose two neighbours are then white.
C11_CapturesCorner ==
    C11_Case =>
        /\ pre = ( Location(0, 0) :> Black @@ Location(1, 0) :> White
                   @@ Location(1, 2) :> Black )
        /\ ret = True
        /\ points = Without(Placed, { Location(0, 0) })

C11_Witness ==
    /\ C11_Case
    /\ played = << 1, 4, 5, 6 >>
    /\ MapGet(pre, Location(0, 0)) = Black
    /\ Location(0, 0) \notin DOMAIN points
    /\ MapGet(points, Location(0, 1)) = White

\* The position tests::play ends in.
FinalBlack == { Location(0, 0), Location(2, 0), Location(2, 1), Location(0, 2),
                Location(1, 2) }
FinalWhite == { Location(3, 2), Location(3, 3) }

\* C12: in the game of tests::play with every move made, the plays on the
\* occupied (0,0) return false and every other play returns true; the last
\* play, Black at (0,0), removes the white stones at (1,0) and (1,1) and
\* leaves exactly Black at (0,0), (2,0), (2,1), (0,2), (1,2) and White at
\* (3,2), (3,3).
C12_Game ==
    /\ \A k \in 1..Len(Script) :
          ( op = "play" /\ played = [i \in 1..k |-> i] )
          => ret = IF k \in {2, 3} THEN False ELSE True
    /\ ( op = "play" /\ played = [i \in 1..Len(Script) |-> i] )
       => /\ MapGet(pre, Location(1, 0)) = White
          /\ MapGet(pre, Location(1, 1)) = White
          /\ Location(1, 0) \notin DOMAIN points
          /\ Location(1, 1) \notin DOMAIN points
          /\ points = [l \in FinalBlack \cup FinalWhite |->
                          IF l \in FinalBlack THEN Black ELSE White]

C12_Witness ==
    /\ op = "play"
    /\ played = [i \in 1..Len(Script) |-> i]
    /\ ret = True
    /\ MapGet(pre, Location(1, 1)) = White
    /\ DOMAIN points = FinalBlack \cup FinalWhite

\* C13: every location of the occupancy map has col < size and row < size,
\* and get of a location with col >= size or row >= size is None.
C13_OccupancyInBounds ==
    /\ \A l \in DOMAIN points : col(l) < size /\ row(l) < size
    /\ \A l \in Inputs(size) :
          ( col(l) >= size \/ row(l) >= size ) => get(points, l) = None

\* ... reached when add was called past the far edge of a board that holds a
\* stone in its far corner.
C13_Witness ==
    /\ op = "add"
    /\ col(loc) >= size
    /\ Location(size - 1, size - 1) \in DOMAIN points
    /\ get(points, loc) = None

\* A set of locations any two of which are linked by steps between adjacent
\* members.
Connected(G) ==
    \A a \in G : Grow([x \in G |-> Black], Black, {a}) = G

\* C14: groups(colour) returns non-empty, connected groups of that colour
\* only; every stone of that colour is in exactly one of them, no stone of the
\* other colour is in any, and no two of them hold adjacent stones.
C14_GroupsPartition ==
    op = "groups" =>
        /\ \A i \in DOMAIN ret :
              /\ ret[i].group # {}
              /\ ret[i].colour = stone
              /\ \A x \in ret[i].group : MapGet(points, x) = stone
              /\ Connected(ret[i].group)
        /\ \A x \in DOMAIN points :
              Cardinality({ i \in DOMAIN ret : x \in ret[i].group })
                  = IF points[x] = stone THEN 1 ELSE 0
        /\ \A i, j \in DOMAIN ret :
              i # j => \A a \in ret[i].group, b \in ret[j].group : ~Adjacent(a, b)

\* ... reached with two groups returned, one of them of three stones or more,
\* on a board that holds stones of the other colour too.
C14_Witness ==
    /\ op = "groups"
    /\ Len(ret) = 2
    /\ \E i \in DOMAIN ret : Cardinality(ret[i].group) >= 3
    /\ \E x \in DOMAIN points : points[x] # stone

\* C15: liberties(group) returns exactly the empty locations with col < size
\* and row < size that are adjacent to a member of the group, none of them
\* with col = size or row = size, and leaves the board as it was.
C15_LibertiesExact ==
    op = "liberties" =>
        /\ ret = { x \in (0..size) \X (0..size) :
                      /\ \E y \in Chain(points, loc) : Adjacent(x, y)
                      /\ col(x) < size /\ row(x) < size
                      /\ x \notin DOMAIN points }
        /\ \A x \in ret : col(x) # size /\ row(x) # size
        /\ points = pre

\* ... reached for a group on the far edges that has a liberty.
C15_Witness ==
    /\ op = "liberties"
    /\ \E y \in Chain(points, loc) : col(y) = size - 1
    /\ \E y \in Chain(points, loc) : row(y) = size - 1
    /\ Cardinality(Chain(points, loc)) >= 2
    /\ ret # {}

\* C16: the text printed for a board parses to a board of the same size and
\* the same occupancy.
C16_RoundTrip ==
    op = "fmt" =>
        /\ FromStr(text).size = size
        /\ FromStr(text).points = points

\* ... reached for a board of size 3 with stones of both colours in its first
\* and last rows and columns.
C16_Witness ==
    /\ op = "fmt"
    /\ size = 3
    /\ Len(text) = 21
    /\ MapGet(points, Location(0, 2)) = White
    /\ MapGet(points, Location(2, 0)) = Black
    /\ MapGet(points, Location(1, 0)) = None

\* The parsed text read by position: the chars that are symbols, the line a
\* char is on and the number of symbols before it on that line (both from 0),
\* the number of lines and the largest number of symbols on a line.
SymBlack == { "#", "X", "⚈", "⚉" }
SymWhite == { "O", "o", "⚆", "⚇" }
Syms == { i \in 1..Len(text) : text[i] \in SymBlack \cup SymWhite \cup {"."} }
LineOf(i) == Cardinality({ j \in 1..(i - 1) : text[j] = "\n" })
KOf(i) == Cardinality({ j \in Syms : j < i /\ LineOf(j) = LineOf(i) })
NumLines ==
    IF text = << >> THEN 0
    ELSE Cardinality({ j \in 1..Len(text) : text[j] = "\n" })
         + (IF text[Len(text)] = "\n" THEN 0 ELSE 1)
Width ==
    IF Syms = {} THEN 0
    ELSE CHOOSE n \in { KOf(i) + 1 : i \in Syms } : \A i \in Syms : KOf(i) + 1 <= n

\* C17: from_str returns a board of size max(most symbols on a line, number
\* of lines); symbol k of line r is the point (k, size-1-r), black, white or
\* empty as the symbol says, and every point no stone symbol lands on is empty.
C17_UpperLeftSquare ==
    op = "from_str" =>
        /\ size = IF Width > NumLines THEN Width ELSE NumLines
        /\ \A i \in Syms :
              get(points, Location(KOf(i), size - 1 - LineOf(i)))
                  = IF text[i] \in SymBlack THEN Black
                    ELSE IF text[i] \in SymWhite THEN White ELSE None
        /\ \A l \in DOMAIN points :
              \E i \in Syms : /\ text[i] # "."
                               /\ l = Location(KOf(i), size - 1 - LineOf(i))

\* ... reached by a text with more symbols on a line than lines, a stone on
\* its second line and a char that is no symbol.
C17_Witness ==
    /\ op = "from_str"
    /\ NumLines = 2
    /\ size = 3
    /\ \E i \in Syms : LineOf(i) = 1 /\ text[i] # "."
    /\ \E i \in 1..Len(text) : text[i] = " "
    /\ DOMAIN points # {}

\* Every point but the argument of the last call is as it was before it.
OthersKept ==
    \A x \in Inputs(size) \cup DOMAIN pre \cup DOMAIN points :
        x # loc => get(points, x) = MapGet(pre, x)

\* C18: add at an in-bounds loc returns the previous occupant, sets loc to
\* the colour given and keeps every other point; remove returns the previous
\* occupant, clears loc and keeps every other point; get returns what the
\* point holds and keeps the board.
C18_SetupOperations ==
    /\ ( op = "add" /\ loc \in OnBoard(size) )
       => /\ ret = MapGet(pre, loc)
          /\ get(points, loc) = stone
          /\ OthersKept
          /\ ~panic
    /\ op = "remove"
       => /\ ret = MapGet(pre, loc)
          /\ get(points, loc) = None
          /\ OthersKept
    /\ op = "get"
       => /\ ret = MapGet(pre, loc)
          /\ points = pre

\* ... reached by an add that overwrites a stone of the other colour and
\* leaves a group without liberties on the board.
C18_Witness ==
    /\ op = "add"
    /\ MapGet(pre, loc) = Not(stone)
    /\ ret = Not(stone)
    /\ get(points, loc) = stone
    /\ \E x \in DOMAIN points : Libs(size, points, Chain(points, x)) = {}
    /\ \A x \in DOMAIN pre : Libs(size, pre, Chain(pre, x)) # {}

\* C19: neighbours() yields (col-1,row) if col > 0, then (col+1,row), then
\* (col,row-1) if row > 0, then (col,row+1), and nothing else: two to four
\* distinct locations one step away, those past a far edge included.
C19_NeighbourOrder ==
    op = "neighbours" =>
        LET c == col(loc)
            r == row(loc)
        IN  /\ ret = IF c > 0 /\ r > 0
                        THEN << <<c - 1, r>>, <<c + 1, r>>, <<c, r - 1>>, <<c, r + 1>> >>
                      ELSE IF c > 0
                        THEN << <<c - 1, r>>, <<c + 1, r>>, <<c, r + 1>> >>
                      ELSE IF r > 0
                        THEN << <<c + 1, r>>, <<c, r - 1>>, <<c, r + 1>> >>
                      ELSE << <<c + 1, r>>, <<c, r + 1>> >>
            /\ Len(ret) \in 2..4
            /\ \A i, j \in DOMAIN ret : i # j => ret[i] # ret[j]
            /\ \A i \in DOMAIN ret : Adjacent(ret[i], loc)
            /\ \E i \in DOMAIN ret : ret[i] = << c + 1, r >>
            /\ \E i \in DOMAIN ret : ret[i] = << c, r + 1 >>

\* ... reached for a location on the far column of a board, in its row 0:
\* three neighbours, one of them past the far edge.
C19_Witness ==
    /\ op = "neighbours"
    /\ size = 3
    /\ loc = Location(2, 0)
    /\ ret = << Location(1, 0), Location(3, 0), Location(2, 1) >>

\* C20: locations() yields the size * size locations of the board, each once,
\* column by column with the rows ascending inside a column, and then None on
\* every further call; every call of locations() does so.
C20_ColumnMajor ==
    op = "locations" =>
        /\ Len(ret.items) = size * size
        /\ \A i \in 1..(size * size) :
              ret.items[i] = << (i - 1) \div size, (i - 1) % size >>
        /\ { ret.items[i] : i \in DOMAIN ret.items } = OnBoard(size)
        /\ \A k \in DOMAIN ret.after : ret.after[k] = << >>

\* ... reached on a board of size 3, and on one of size 0.
C20_Witness ==
    /\ op = "locations"
    /\ size = 3
    /\ Len(ret.items) = 9
    /\ ret.items[4] = Location(1, 0)
    /\ Len(ret.after) >= 2

C20_WitnessEmpty ==
    /\ op = "locations"
    /\ size = 0
    /\ ret.items = << >>

C21_WitnessChain ==
    /\ op = "group_neighbours"
    /\ Cardinality(ret.group) >= 3
    /\ \E x \in ret.neighbours : x \notin OnBoard(size)

\* The groups next() returns are those of GroupIteratorNext for the seed it
\* took, and the candidates left are the same.
FillAgrees ==
    ( op = "next" /\ iter.out # << >> ) =>
        \E seed \in DOMAIN pre :
            /\ GroupIteratorNext(pre, seed).item = iter.out[1]
            /\ GroupIteratorNext(pre, seed).stones = iter.stones

\* C22: a round of the expansion loop that stays in the loop leaves fewer
\* candidates than it found, and a call of next() that is in its loop gets
\* out of it; the iterator returns at most as many groups as there are
\* stones, and next() returns None exactly when it finds no candidate.
C22_FloodFillTerminates ==
    /\ [][ ( iter.pc = "loop" /\ iter'.pc = "loop" )
            => Cardinality(DOMAIN iter'.stones) < Cardinality(DOMAIN iter.stones) ]_vars
    /\ [] ( iter.emitted <= Cardinality(DOMAIN points) )
    /\ [] ( op = "next" => ( iter.out = << >> <=> DOMAIN pre = {} ) )
    /\ [] ( iter.pc = "loop" => <> ( iter.pc = "idle" ) )

\* ... reached when next() returns a group of three stones or more, with
\* candidates left, after it has returned another.
C22_Witness ==
    /\ op = "next"
    /\ iter.emitted = 2
    /\ DOMAIN iter.stones # {}
    /\ \E i \in DOMAIN iter.out : Cardinality(iter.out[i].group) >= 3

\* ... and when next() returns None after the last of several groups.
C22_WitnessNone ==
    /\ op = "next"
    /\ iter.out = << >>
    /\ iter.emitted >= 3

\* C23: on a board that starts empty and sees only play calls, every group
\* has a liberty, after accepted and after rejected plays alike.
C23_EveryGroupHasLiberty ==
    \A x \in DOMAIN points : Libs(size, points, Chain(points, x)) # {}

\* ... reached after a play that captured two opposing stones or more, the
\* stone played being the last liberty they had,
C23_Witness ==
    /\ Accepted
    /\ loc \in DOMAIN points
    /\ Cardinality(DOMAIN pre \ DOMAIN points) >= 2
    /\ Libs(size, points, Chain(points, loc)) # {}

\* ... after a suicide, which takes the stone played and the stones of the
\* player it joined off the board,
C23_WitnessSuicide ==
    /\ Accepted
    /\ loc \notin DOMAIN points
    /\ \E x \in DOMAIN pre : pre[x] = stone /\ x \notin DOMAIN points
    /\ DOMAIN points # {}

\* ... and after a play rejected because the point holds a stone.
C23_WitnessRejected ==
    /\ op = "play" /\ ret = False
    /\ loc \in DOMAIN pre
    /\ Cardinality(DOMAIN points) >= 4

\* C24: no assertion of play fails in a state reached through add, remove
\* and play: the placement finds the point empty and every stone taken off
\* with a condemned group is there, in the colour expected.
C24_AssertionsHold == op = "play" => ~panic

\* ... reached when a play captures two separate opposing groups, the second
\* one examined after the first is off the board,
C24_Witness ==
    /\ Accepted
    /\ \E x, y \in DOMAIN pre \ DOMAIN points :
          /\ pre[x] = Not(stone) /\ pre[y] = Not(stone)
          /\ y \notin Chain(pre, x)

\* ... and when a play is a suicide of a group of two stones or more.
C24_WitnessSuicide ==
    /\ Accepted
    /\ loc \notin DOMAIN points
    /\ \E x \in DOMAIN pre : pre[x] = stone /\ x \notin DOMAIN points

\* C25: a play that proceeds has one outcome: whatever the order in which the
\* flood fill emits the groups and the opposing groups are examined, the
\* occupancy left and the value returned are those observed; and taking a
\* dead opposing group off the board leaves every other opposing group with
\* liberties or without, as it was.
C25_OrderIrrelevant ==
    Proceeds =>
        /\ \A b \in PlayOutcomes(size, pre, loc, stone) :
              /\ b.points = points
              /\ b.ok <=> ret = True
        /\ \A G \in Chains(Placed, Not(stone)) :
              Libs(size, Placed, G) = {} =>
                  \A H \in Chains(Placed, Not(stone)) \ {G} :
                      Libs(size, Without(Placed, G), H) = {}
                          <=> Libs(size, Placed, H) = {}

\* ... reached when the flood fill can emit the groups in several orders and
\* the play takes two separate opposing groups off the board.
C25_Witness ==
    /\ Proceeds
    /\ Cardinality(Partitions(Placed, stone)) >= 2
    /\ \E x, y \in DOMAIN pre \ DOMAIN points :
          /\ pre[x] = Not(stone) /\ pre[y] = Not(stone)
          /\ y \notin Chain(pre, x)

\* C26: on the 19x19 board, parsing the label printed for a location, with
\* its column letter in upper or in lower case, gives Ok of that location.
C26_LabelRoundTrip ==
    op = "parse" => ret = Ok(loc)

\* What the code does: the labels of every row but the tenth parse back to
\* their location, and those of the tenth row, whose number ends in '0', are
\* refused with "bad row 2".
LabelRoundTripButRowTen ==
    op = "parse" =>
        ret = IF row(loc) + 1 = 10 THEN Err("bad row 2") ELSE Ok(loc)

\* The text of the last call without its char i.
Drop(i) == SubSeq(text, 1, i - 1) \o SubSeq(text, i + 1, Len(text))

\* The text read by position when B are the symbols of a black stone, W
\* those of a white one and '.' that of an empty point: every other char but
\* the line feed counts for nothing.
ReadAs(B, W) ==
    LET syms == { i \in 1..Len(text) : text[i] \in B \cup W \cup {"."} }
        k(i) == Cardinality({ j \in syms : j < i /\ LineOf(j) = LineOf(i) })
        w    == IF syms = {} THEN 0
                ELSE CHOOSE n \in { k(i) + 1 : i \in syms } :
                         \A i \in syms : k(i) + 1 <= n
        sz   == IF w > NumLines THEN w ELSE NumLines
        at(i) == Location(k(i), sz - 1 - LineOf(i))
        st   == { i \in syms : text[i] # "." }
    IN  [size   |-> sz,
         points |-> [l \in { at(i) : i \in st } |->
                        IF \E i \in st : at(i) = l /\ text[i] \in B
                        THEN Black ELSE White]]

\* Char i is all there is on the last line of the text: without it the text
\* has a line less.
AloneOnLastLine(i) == i = Len(text) /\ ( i = 1 \/ text[i - 1] = "\n" )

\* The board from_str returned is the text read with the symbols B and W,
\* and leaving out a char that is none of them changes nothing, as long as
\* the lines stay as many.
SymbolsAre(B, W) ==
    /\ [size |-> size, points |-> points] = ReadAs(B, W)
    /\ \A i \in 1..Len(text) :
          ( text[i] \notin B \cup W \cup { ".", "\n" } /\ ~AloneOnLastLine(i) )
              => FromStr(Drop(i)) = [size |-> size, points |-> points]

\* C27 as stated: '.', '#', 'X', 'O' and 'o' are the symbols, '#' and 'X'
\* black, 'O' and 'o' white; every other char places no stone and counts for
\* no width and no column.
C27_FiveSymbols ==
    op = "from_str" => SymbolsAre({ "#", "X" }, { "O", "o" })

\* C27 amended: the symbols are '.', the black '#', 'X', U+2688 and U+2689,
\* and the white 'O', 'o', U+2686 and U+2687; every other char places no
\* stone and counts for no width and no column.
C27_NineSymbols ==
    op = "from_str" => SymbolsAre(SymBlack, SymWhite)

\* ... reached by a text where a glyph of each colour places a stone, one of
\* them after a char that is no symbol, and 'o' places a white one.
C27_Witness ==
    /\ op = "from_str"
    /\ \E i, j, n \in 1..Len(text) :
          /\ text[i] \in { "⚈", "⚉" }
          /\ text[j] \in { "⚆", "⚇" }
          /\ text[n] = "o"
    /\ \E i \in Syms : i > 1 /\ text[i - 1] \in { " ", "-" }
    /\ Cardinality(DOMAIN points) = 3

====
